---- MODULE Spec2Model ----
(***************************************************************************)
(* Model of src/DataExtract/extract_data.py and the with-block of          *)
(* src/main.py: the keyed (scroll) collector JustJoinITScraper, the        *)
(* paginated collector PracujPLITScraper and the DataScraper session that  *)
(* dispatches to one of them, writes the output file and closes the        *)
(* browser.                                                                *)
(*                                                                         *)
(* Strings are modelled as sequences of tokens: a data-index attribute is  *)
(* the sequence of its characters (<<"1","0">> is "10"), an item's markup  *)
(* is one token, a document is the sequence of its wrapper tags and item   *)
(* fragments.  <<>> stands for "no document" / "no file": every document   *)
(* the code builds holds at least its two wrapper tags.                    *)
(***************************************************************************)
EXTENDS Integers, Sequences, FiniteSets, TLC

\* ------------------------------------------------------------------ bounds
\* largest max_rounds / max_stale_rounds argument tried
MaxRoundsBound == 3
MaxStaleBound == 2
\* most li[data-index] rows in one snapshot, most offer divs on one page
MaxRows == 2

\* ------------------------------------------------------------ value sets
JUSTJOINIT == "justjoinit"
PRACUJPLIT == "pracujplit"
SupportedJobSites == {JUSTJOINIT, PRACUJPLIT}

\* data-index attribute values the page renders, as character sequences
\* (the list's positions: decimal numerals, so int(k) is defined on each)
Keys == {<<"1">>, <<"2">>, <<"1", "0">>}
\* li.getAttribute('data-index') giving null
NoneIdx == <<"None">>
\* marker of "never observed" in first_obs
Unseen == "-"

\* the rows the scripted query can return: an li's outerHTML carries its
\* data-index attribute; item 1 has two renderings
Rows ==
    { [idx |-> <<"1">>, html |-> "li1"], [idx |-> <<"1">>, html |-> "li1'"],
      [idx |-> <<"2">>, html |-> "li2"], [idx |-> <<"1", "0">>, html |-> "li10"],
      [idx |-> NoneIdx, html |-> "li"] }

\* outerHTML of the offer divs of the paginated site
Offers == {"o1", "o2"}

SeqsUpTo(S, n) == UNION {[1..m -> S] : m \in 0..n}

\* what querySelectorAll('#up-offers-list ul li[data-index]') can return
Snapshots == SeqsUpTo(Rows, MaxRows)

\* state of the bottom-pagination "next" control
NextStates == {"absent", "hidden", "disabled", "clickable"}

\* a rendered result page of the paginated site: whether
\* [data-test='section-offers'] is present, its child divs, the next control
NoContainer == [container |-> FALSE, items |-> <<>>, next |-> "absent"]
PagesWith(itemSeqs) ==
    {NoContainer} \cup [container : {TRUE}, items : itemSeqs, next : NextStates]

\* ------------------------------------------------------- pure functions
DigitVal(c) ==
    CASE c = "0" -> 0 [] c = "1" -> 1 [] c = "2" -> 2 [] c = "3" -> 3
      [] c = "4" -> 4 [] c = "5" -> 5 [] c = "6" -> 6 [] c = "7" -> 7
      [] c = "8" -> 8 [] c = "9" -> 9

\* int(k) of a decimal string
RECURSIVE IntOf(_)
IntOf(k) ==
    IF k = <<>> THEN 0
    ELSE 10 * IntOf(SubSeq(k, 1, Len(k) - 1)) + DigitVal(k[Len(k)])

\* rank of a string in text (character-by-character) order
KeyWidth == CHOOSE w \in 0..8 : (\A k \in Keys : Len(k) <= w)
                                  /\ (\E k \in Keys : Len(k) = w)
RECURSIVE Pow(_, _)
Pow(b, e) == IF e = 0 THEN 1 ELSE b * Pow(b, e - 1)
TextRank(k) ==
    LET pos(i) == IF i <= Len(k) THEN DigitVal(k[i]) + 1 ELSE 0
        RECURSIVE acc(_)
        acc(i) == IF i > KeyWidth THEN 0 ELSE pos(i) * Pow(11, KeyWidth - i) + acc(i + 1)
    IN acc(1)

\* `idx in seen` for the insertion-ordered dict seen
HasKey(seen, idx) == \E i \in DOMAIN seen : seen[i].idx = idx

\* seen[k]
Lookup(seen, k) == seen[CHOOSE i \in DOMAIN seen : seen[i].idx = k].html

\* the for-loop of _collect_visible_items with `seen[idx] = row["html"]`
\* made unconditional for non-null idx: a later row overwrites
RECURSIVE CollectOverwrite(_, _)
CollectOverwrite(seen, rows) ==
    IF rows = <<>> THEN seen
    ELSE LET row == Head(rows)
             put == IF row.idx = NoneIdx THEN seen
                    ELSE IF HasKey(seen, row.idx)
                         THEN [i \in DOMAIN seen |->
                                 IF seen[i].idx = row.idx THEN row ELSE seen[i]]
                         ELSE Append(seen, row)
         IN CollectOverwrite(put, Tail(rows))

RECURSIVE CollectMirror(_, _)
CollectMirror(seen, rows) ==
    IF rows = <<>> THEN <<>>
    ELSE LET rest == CollectMirror(seen, Tail(rows))
             row == Head(rows)
         IN IF row.idx # NoneIdx /\ ~HasKey(rest, row.idx)
            THEN <<row>> \o rest ELSE rest

\* _collect_visible_items: merge the snapshot rows into seen
RECURSIVE CollectVisibleItems(_, _)
CollectVisibleItems(seen, rows) ==
    IF rows = <<>> THEN seen
    ELSE LET row == Head(rows)
             put == IF row.idx # NoneIdx /\ ~HasKey(seen, row.idx)
                    THEN Append(seen, row)
                    ELSE seen
         IN CollectVisibleItems(put, Tail(rows))

\* max((int(k) for k in seen.keys()), default=-1)
MaxIdx(seen) ==
    IF seen = <<>> THEN -1
    ELSE LET vals == {IntOf(seen[i].idx) : i \in DOMAIN seen}
         IN CHOOSE m \in vals : \A v \in vals : v <= m

\* progressed = (current_count > last_count) or (current_max_idx > last_max_idx)
Progressed(current_count, current_max_idx, lcount, lmax) ==
    (current_count > lcount) \/ (current_max_idx > lmax)

StaleNoReset(progressed, stale) == IF progressed THEN stale ELSE stale + 1

\* stale_rounds = 0 if progressed else stale_rounds + 1
StaleUpdate(progressed, stale) == IF progressed THEN 0 ELSE stale + 1

BreakStrict(stale, maxStale) == stale > maxStale

\* if stale_rounds >= max_stale_rounds: break
ShouldBreak(stale, maxStale) == stale >= maxStale

LoopContinuesInclusive(r, maxRounds) == r <= maxRounds

\* for _ in range(max_rounds): another iteration follows r completed ones
LoopContinues(r, maxRounds) == r < maxRounds

SortKeyText(k) == TextRank(k)

\* key=lambda x: int(x)
SortKey(k) == IntOf(k)

\* sorted(seen, key=...): stable, over the keys in insertion order
RECURSIVE InsertSorted(_, _)
InsertSorted(sortedKeys, k) ==
    IF sortedKeys = <<>> THEN <<k>>
    ELSE IF SortKey(Head(sortedKeys)) <= SortKey(k)
         THEN <<Head(sortedKeys)>> \o InsertSorted(Tail(sortedKeys), k)
         ELSE <<k>> \o sortedKeys

RECURSIVE SortedKeysFrom(_, _)
SortedKeysFrom(acc, keys) ==
    IF keys = <<>> THEN acc
    ELSE SortedKeysFrom(InsertSorted(acc, Head(keys)), Tail(keys))

SortedKeys(seen) == SortedKeysFrom(<<>>, [i \in DOMAIN seen |-> seen[i].idx])

\* "<ul>" + "".join(seen[k] for k in sorted(seen, key=lambda x: int(x))) + "</ul>"
MergeKeyed(seen) ==
    LET ks == SortedKeys(seen)
    IN <<"<ul>">> \o [i \in DOMAIN ks |-> Lookup(seen, ks[i])] \o <<"</ul>">>

RECURSIVE Dedup(_, _)
Dedup(acc, items) ==
    IF items = <<>> THEN acc
    ELSE Dedup(IF \E i \in DOMAIN acc : acc[i] = Head(items)
               THEN acc ELSE Append(acc, Head(items)), Tail(items))

ExtendDedup(all, page_offers) == Dedup(all, page_offers)

\* all_offers.extend(page_offers)
Extend(all, page_offers) == all \o page_offers

\* _collect_offer_divs: outerHTML of the section's child divs, in DOM order
CollectOfferDivs(page) == page.items

NextFoundIsVisible(page) == page.next # "absent"

\* _is_next_button_visible: False when the lookup fails, else is_displayed()
IsNextButtonVisible(page) ==
    IF page.next = "absent" THEN FALSE ELSE page.next # "hidden"

\* "<div>" + "".join(all_offers) + "</div>"
MergePaginated(all) == <<"<div>">> \o all \o <<"</div>">>

CloseOnSuccessOnly(exc_type, open) == IF exc_type = "none" THEN FALSE ELSE open

\* DataScraper.__exit__ -> close -> driver.quit(): the session's state after
DunderExit(exc_type, open) == FALSE

\* ------------------------------------------------------------------ state
VARIABLES
    job_site,          \* DataScraper.job_site
    max_rounds,        \* the collectors' max_rounds argument
    max_stale_rounds,  \* the collectors' max_stale_rounds argument
    pc,                \* position in main / DataScraper.scrape / the collector
    driver_open,       \* the Chrome session exists and has not been quit
    listing_empty,     \* the searched listing has no items at all
    advisory_failed,   \* some best-effort step raised and was swallowed
    seen,              \* JustJoinITScraper.scrape: seen, in insertion order
    stale_rounds, last_count, last_max_idx,
    round,             \* loop iterations begun
    all_offers,        \* PracujPLITScraper.scrape: all_offers
    stop,              \* how the round loop ended: "none", "stale", "nonext", "cap"
    scrolls, clicks,   \* window.scrollBy calls, next-button clicks
    merged_html,       \* the collector's return value
    file,              \* content of the output file
    exc,               \* the blocking wait that timed out: "none", "wait", "click"
    hist,              \* history: seen after the initial snapshot and after each round
    first_obs,         \* history: markup of the first observed row of each key
    redrawn,           \* history: a row repeated a collected key with other markup
    pages,             \* history: page_offers of each iteration
    nexts              \* history: the next control as each iteration found it

vars == <<job_site, max_rounds, max_stale_rounds, pc, driver_open, listing_empty,
          advisory_failed, seen, stale_rounds, last_count, last_max_idx, round,
          all_offers, stop, scrolls, clicks, merged_html, file, exc,
          hist, first_obs, redrawn, pages, nexts>>

config == <<job_site, max_rounds, max_stale_rounds>>
keyed == <<seen, stale_rounds, last_count, last_max_idx, hist, first_obs, redrawn, scrolls>>
paged == <<all_offers, pages, nexts, clicks>>
output == <<merged_html, file>>

\* the DOM snapshots / pages the searched listing can show
DomSnapshots == IF listing_empty THEN {<<>>} ELSE Snapshots
DomPages ==
    IF listing_empty THEN PagesWith({<<>>})
    ELSE PagesWith(SeqsUpTo(Offers, MaxRows))

\* first row of each key, kept once set
FirstObs(fo, rows) ==
    [k \in Keys |->
        IF fo[k] # Unseen THEN fo[k]
        ELSE IF \E i \in DOMAIN rows : rows[i].idx = k
             THEN rows[CHOOSE i \in DOMAIN rows :
                         /\ rows[i].idx = k
                         /\ \A j \in DOMAIN rows : rows[j].idx = k => i <= j].html
             ELSE Unseen]

\* some row shows an already observed key with different markup
Redraw(fo, rows) ==
    \/ \E i \in DOMAIN rows :
          rows[i].idx \in Keys /\ fo[rows[i].idx] \notin {Unseen, rows[i].html}
    \/ \E i, j \in DOMAIN rows :
          i < j /\ rows[i].idx \in Keys /\ rows[i].idx = rows[j].idx
                /\ rows[i].html # rows[j].html

\* state after DataScraper.__init__: session open, nothing collected
Init ==
    /\ job_site \in SupportedJobSites
    /\ max_rounds \in 0..MaxRoundsBound
    /\ max_stale_rounds \in 0..MaxStaleBound
    \* PracujPLITScraper.scrape never reads max_stale_rounds
    /\ job_site = PRACUJPLIT => max_stale_rounds = MaxStaleBound
    /\ pc = "constructed"
    /\ driver_open = TRUE
    /\ listing_empty = FALSE
    /\ advisory_failed = FALSE
    /\ seen = <<>>
    /\ stale_rounds = 0
    /\ last_count = 0
    /\ last_max_idx = -1
    /\ round = 0
    /\ all_offers = <<>>
    /\ stop = "none"
    /\ scrolls = 0
    /\ clicks = 0
    /\ merged_html = <<>>
    /\ file = <<>>
    /\ exc = "none"
    /\ hist = <<>>
    /\ first_obs = [k \in Keys |-> Unseen]
    /\ redrawn = FALSE
    /\ pages = <<>>
    /\ nexts = <<>>

\* ---------------------------------------------------------------- actions
RaiseSwallowed(cause) == pc' = "break" /\ exc' = cause /\ stop' = stop

\* an exception no try block of the collector or of DataScraper.scrape catches
Raise(cause) == pc' = "raised" /\ exc' = cause /\ stop' = stop

\* with DataScraper(...) as scraper: __enter__
Enter ==
    /\ pc = "constructed"
    /\ pc' = "entered"
    /\ UNCHANGED <<config, driver_open, listing_empty, advisory_failed, keyed, round,
                   paged, stop, output, exc>>

\* DataScraper.scrape dispatching to the site's collector, which navigates
Navigate ==
    /\ pc = "entered"
    /\ listing_empty' \in BOOLEAN
    /\ pc' = "cookies"
    /\ UNCHANGED <<config, driver_open, advisory_failed, keyed, round, paged, stop,
                   output, exc>>

\* _accept_cookies_if_present: any failure is swallowed
AcceptCookies ==
    /\ pc = "cookies"
    /\ \E ok \in BOOLEAN :
          advisory_failed' = (advisory_failed \/ ~ok)
    /\ pc' = IF job_site = PRACUJPLIT THEN "popup" ELSE "total"
    /\ UNCHANGED <<config, driver_open, listing_empty, keyed, round, paged, stop,
                   output, exc>>

\* PracujPLITScraper._close_popup_if_present: any failure is swallowed
ClosePopup ==
    /\ pc = "popup"
    /\ \E ok \in BOOLEAN :
          advisory_failed' = (advisory_failed \/ ~ok)
    /\ pc' = "total"
    /\ UNCHANGED <<config, driver_open, listing_empty, keyed, round, paged, stop,
                   output, exc>>

ParseTotalPropagates ==
    /\ pc = "total"
    /\ \E ok \in BOOLEAN :
          /\ advisory_failed' = (advisory_failed \/ ~ok)
          /\ IF ok THEN /\ pc' = IF job_site = JUSTJOINIT THEN "initial" ELSE "loop"
                        /\ UNCHANGED <<exc, stop>>
             ELSE /\ pc' = "raised"
                  /\ exc' = "total"
                  /\ stop' = stop
    /\ UNCHANGED <<config, driver_open, listing_empty, keyed, round, paged, output>>

\* try: total = self._parse_total_offers() except Exception: print(...)
ParseTotal ==
    /\ pc = "total"
    /\ \E ok \in BOOLEAN :
          advisory_failed' = (advisory_failed \/ ~ok)
    /\ pc' = IF job_site = JUSTJOINIT THEN "initial" ELSE "loop"
    /\ UNCHANGED <<config, driver_open, listing_empty, keyed, round, paged, stop,
                   output, exc>>

\* JustJoinITScraper.scrape: the initial snapshot and the loop's locals
InitialSnapshot ==
    /\ pc = "initial"
    /\ \E rows \in DomSnapshots :
          LET seen1 == CollectVisibleItems(<<>>, rows)
          IN /\ seen' = seen1
             /\ last_count' = Len(seen1)
             /\ last_max_idx' = MaxIdx(seen1)
             /\ hist' = <<seen1>>
             /\ first_obs' = FirstObs(first_obs, rows)
             /\ redrawn' = Redraw(first_obs, rows)
    /\ stale_rounds' = 0
    /\ pc' = "loop"
    /\ UNCHANGED <<config, driver_open, listing_empty, advisory_failed, round, scrolls,
                   paged, stop, output, exc>>

\* one iteration of JustJoinITScraper.scrape's for-loop; the wait for an
\* li[data-index] times out exactly when the listing shows no row
ScrollRound ==
    /\ pc = "loop"
    /\ job_site = JUSTJOINIT
    /\ LoopContinues(round, max_rounds)
    /\ round' = round + 1
    /\ \E rows \in DomSnapshots :
          IF rows = <<>>
          THEN \* no li[data-index] within the timeout: wait.until raises
               /\ Raise("wait")
               /\ UNCHANGED keyed
          ELSE LET seen1 == CollectVisibleItems(seen, rows)
                   current_count == Len(seen1)
                   current_max_idx == MaxIdx(seen1)
                   progressed == Progressed(current_count, current_max_idx,
                                            last_count, last_max_idx)
                   stale1 == StaleUpdate(progressed, stale_rounds)
               IN /\ seen' = seen1
                  /\ hist' = Append(hist, seen1)
                  /\ first_obs' = FirstObs(first_obs, rows)
                  /\ redrawn' = (redrawn \/ Redraw(first_obs, rows))
                  /\ stale_rounds' = stale1
                  /\ exc' = exc
                  /\ IF ShouldBreak(stale1, max_stale_rounds)
                     THEN /\ pc' = "break"
                          /\ stop' = "stale"
                          /\ UNCHANGED <<last_count, last_max_idx, scrolls>>
                     ELSE /\ last_count' = current_count
                          /\ last_max_idx' = current_max_idx
                          /\ scrolls' = scrolls + 1
                          /\ pc' = "loop"
                          /\ stop' = stop
    /\ UNCHANGED <<config, driver_open, listing_empty, advisory_failed, paged, output>>

\* JustJoinITScraper.scrape after the loop: merge and return
ScrollMerge ==
    /\ job_site = JUSTJOINIT
    /\ \/ pc = "break" /\ stop' = stop
       \/ pc = "loop" /\ ~LoopContinues(round, max_rounds) /\ stop' = "cap"
    /\ merged_html' = MergeKeyed(seen)
    /\ pc' = "persist"
    /\ UNCHANGED <<config, driver_open, listing_empty, advisory_failed, keyed, round,
                   paged, file, exc>>

\* one iteration of PracujPLITScraper.scrape's for-loop
PageRound ==
    /\ pc = "loop"
    /\ job_site = PRACUJPLIT
    /\ LoopContinues(round, max_rounds)
    /\ round' = round + 1
    /\ \E page \in DomPages :
          IF ~page.container
          THEN \* no [data-test='section-offers'] within the timeout
               /\ Raise("wait")
               /\ UNCHANGED paged
          ELSE LET page_offers == CollectOfferDivs(page)
               IN /\ all_offers' = Extend(all_offers, page_offers)
                  /\ pages' = Append(pages, page.items)
                  /\ nexts' = Append(nexts, page.next)
                  /\ IF ~IsNextButtonVisible(page)
                     THEN /\ pc' = "break"
                          /\ stop' = "nonext"
                          /\ UNCHANGED <<clicks, exc>>
                     ELSE IF page.next = "clickable"
                          THEN /\ clicks' = clicks + 1
                               /\ pc' = "loop"
                               /\ UNCHANGED <<stop, exc>>
                          ELSE \* displayed, never clickable: _click_next_page's wait raises
                               /\ Raise("click")
                               /\ UNCHANGED clicks
    /\ UNCHANGED <<config, driver_open, listing_empty, advisory_failed, keyed, output>>

\* PracujPLITScraper.scrape after the loop: merge and return
PageMerge ==
    /\ job_site = PRACUJPLIT
    /\ \/ pc = "break" /\ stop' = stop
       \/ pc = "loop" /\ ~LoopContinues(round, max_rounds) /\ stop' = "cap"
    /\ merged_html' = MergePaginated(all_offers)
    /\ pc' = "persist"
    /\ UNCHANGED <<config, driver_open, listing_empty, advisory_failed, keyed, round,
                   paged, file, exc>>

\* DataScraper.scrape after the collector returned: write the file, return
Persist ==
    /\ pc = "persist"
    /\ file' = merged_html
    /\ pc' = "returned"
    /\ UNCHANGED <<config, driver_open, listing_empty, advisory_failed, keyed, round,
                   paged, stop, merged_html, exc>>

\* leaving the with-block of main, normally or by the exception: __exit__
Exit ==
    /\ pc \in {"returned", "raised"}
    /\ driver_open' = DunderExit(exc, driver_open)
    /\ pc' = "outside"
    /\ UNCHANGED <<config, listing_empty, advisory_failed, keyed, round, paged, stop,
                   output, exc>>

Next ==
    \/ Enter
    \/ Navigate
    \/ AcceptCookies
    \/ ClosePopup
    \/ ParseTotal
    \/ InitialSnapshot
    \/ ScrollRound
    \/ ScrollMerge
    \/ PageRound
    \/ PageMerge
    \/ Persist
    \/ Exit

Spec == Init /\ [][Next]_vars

\* ------------------------------------------------------ derived histories
\* rounds of the keyed collector that ran to their end
Completed == Len(hist) - 1

\* round j (1..Completed) registered progress against the round before it
ProgressIn(j) ==
    \/ Len(hist[j + 1]) > Len(hist[j])
    \/ MaxIdx(hist[j + 1]) > MaxIdx(hist[j])

\* number of consecutive no-progress rounds ending with the last completed one
TrailingStale ==
    CHOOSE n \in 0..Completed :
        /\ \A j \in (Completed - n + 1)..Completed : ~ProgressIn(j)
        /\ (n < Completed => ProgressIn(Completed - n))

NoProgressRounds == {j \in 1..Completed : ~ProgressIn(j)}

RECURSIVE Flatten(_)
Flatten(blocks) ==
    IF blocks = <<>> THEN <<>> ELSE Head(blocks) \o Flatten(Tail(blocks))

RECURSIVE SumLen(_)
SumLen(blocks) ==
    IF blocks = <<>> THEN 0 ELSE Len(Head(blocks)) + SumLen(Tail(blocks))

ObservedKeys == {k \in Keys : first_obs[k] # Unseen}

\* first-observed markup of the keys of S, by ascending integer value
RECURSIVE AscendingFirstObs(_)
AscendingFirstObs(S) ==
    IF S = {} THEN <<>>
    ELSE LET m == CHOOSE k \in S : \A x \in S : IntOf(k) <= IntOf(x)
         IN <<first_obs[m]>> \o AscendingFirstObs(S \ {m})

\* the document the observed page contents call for
ExpectedDocument ==
    IF job_site = JUSTJOINIT
    THEN <<"<ul>">> \o AscendingFirstObs(ObservedKeys) \o <<"</ul>">>
    ELSE <<"<div>">> \o Flatten(pages) \o <<"</div>">>

Finished == pc = "outside" /\ exc = "none"

\* ------------------------------------------------------------------ claims

\* C1: in the keyed collector the collected set holds every observed non-null
\* key exactly once, with the markup of the first row that showed it; a later
\* row with the same key and other markup never overwrites it.
C1_IdempotentMerge ==
    job_site = JUSTJOINIT =>
        /\ \A k \in Keys :
              Cardinality({i \in DOMAIN seen : seen[i].idx = k})
                  = IF first_obs[k] = Unseen THEN 0 ELSE 1
        /\ \A i \in DOMAIN seen :
              seen[i].idx \in Keys /\ seen[i].html = first_obs[seen[i].idx]

C1_Witness ==
    /\ Finished /\ job_site = JUSTJOINIT
    /\ redrawn
    /\ Len(hist) >= 3
    /\ Len(merged_html) > 2

\* C2: when the last max_stale_rounds rounds (N-s+1..N) registered no progress
\* the loop stops in round N without a further scroll, and what is returned is
\* the collected set as it stood at the end of round N-s.
C2_StagnationStop ==
    (job_site = JUSTJOINIT /\ hist # <<>>) =>
        LET n == Completed
            s == max_stale_rounds
            stagnant == n >= 1 /\ n >= s /\ \A j \in (n - s + 1)..n : ~ProgressIn(j)
        IN /\ stagnant => (stop = "stale" /\ round = n /\ scrolls = n - 1)
           /\ stop = "stale" =>
                 /\ stagnant
                 /\ seen = hist[n - s + 1]
                 /\ merged_html # <<>> => merged_html = MergeKeyed(hist[n - s + 1])

C2_Witness ==
    /\ Finished /\ job_site = JUSTJOINIT
    /\ stop = "stale"
    /\ max_stale_rounds >= 2
    /\ Completed > max_stale_rounds
    /\ ProgressIn(Completed - max_stale_rounds)
    /\ Len(merged_html) > 2

\* C3: when neither stopping condition fires and no wait fails, the round loop
\* of either collector runs exactly max_rounds rounds, whatever the progress,
\* and then returns the merged document of all it collected, without raising.
C3_RoundCap ==
    /\ round <= max_rounds
    /\ (pc \in {"persist", "returned", "outside"} /\ exc = "none"
            /\ stop \notin {"stale", "nonext"})
          => (stop = "cap" /\ round = max_rounds)
    /\ stop = "cap" =>
          /\ round = max_rounds
          /\ exc = "none"
          /\ pc \in {"persist", "returned", "outside"}
          /\ merged_html = ExpectedDocument
          /\ job_site = JUSTJOINIT => (Completed = max_rounds /\ scrolls = max_rounds)
          /\ job_site = PRACUJPLIT => (Len(pages) = max_rounds /\ clicks = max_rounds)

C3_Witness ==
    /\ Finished /\ job_site = JUSTJOINIT
    /\ stop = "cap"
    /\ max_rounds >= 3
    /\ \A j \in 1..Completed : ProgressIn(j)

\* C4: the paginated collector appends each page's item blocks in DOM order:
\* after k pages ended by a next control that is not visible, the loop made k
\* iterations and k-1 clicks, and the sequence is the concatenation of the
\* pages' blocks, nothing dropped, reordered or de-duplicated.
C4_PaginatedAppend ==
    job_site = PRACUJPLIT =>
        /\ all_offers = Flatten(pages)
        /\ Len(all_offers) = SumLen(pages)
        /\ stop = "nonext" =>
              /\ round = Len(pages)
              /\ clicks = Len(pages) - 1
              /\ merged_html # <<>> =>
                    merged_html = <<"<div>">> \o Flatten(pages) \o <<"</div>">>

C4_Witness ==
    /\ Finished /\ job_site = PRACUJPLIT
    /\ stop = "nonext"
    /\ pages = << <<"o1", "o2">>, <<"o2", "o1">>, <<"o1">> >>
    /\ Len(merged_html) = 7

\* C5: the keyed collector's document holds one fragment per collected key,
\* in ascending order of the keys' integer values (not their text order),
\* whatever the insertion order.
C5_NumericOrder ==
    (job_site = JUSTJOINIT /\ merged_html # <<>>) =>
        LET n == Len(seen)
        IN /\ Len(merged_html) = n + 2
           /\ merged_html[1] = "<ul>"
           /\ merged_html[n + 2] = "</ul>"
           /\ \E p \in [1..n -> 1..n] :
                 /\ \A i, j \in 1..n : p[i] = p[j] => i = j
                 /\ \A i \in 1..n : merged_html[i + 1] = seen[p[i]].html
                 /\ \A i \in 1..(n - 1) :
                       IntOf(seen[p[i]].idx) <= IntOf(seen[p[i + 1]].idx)

C5_Witness ==
    /\ Finished /\ job_site = JUSTJOINIT
    /\ [i \in DOMAIN seen |-> seen[i].idx] = << <<"1", "0">>, <<"2">>, <<"1">> >>
    /\ merged_html = <<"<ul>", "li1", "li2", "li10", "</ul>">>

\* C6: when the searched listing has no items, neither collector raises and
\* the document returned is the empty wrapper.
C6_NoItemsNeverRaises ==
    listing_empty =>
        /\ exc = "none"
        /\ merged_html # <<>> =>
              merged_html = IF job_site = JUSTJOINIT
                            THEN <<"<ul>", "</ul>">> ELSE <<"<div>", "</div>">>

\* C7: a failure of an advisory step (cookie dismissal, popup dismissal,
\* total-count parse) is swallowed: nothing is raised before the round loop,
\* and the document returned is the one the page contents call for, non-empty
\* when items exist, whether or not an advisory step failed.
C7_AdvisoryTolerance ==
    /\ exc # "none" => (exc \in {"wait", "click"} /\ round >= 1)
    /\ pc \in {"persist", "returned", "outside"} /\ exc = "none" =>
          /\ merged_html = ExpectedDocument
          /\ (ObservedKeys # {} \/ SumLen(pages) > 0) => Len(merged_html) > 2

C7_Witness ==
    /\ Finished
    /\ advisory_failed
    /\ file = ExpectedDocument
    /\ Len(file) > 2

\* C8: a timed-out blocking wait of a round propagates to the caller: no
\* document is returned and no file is written; the file is written only after
\* the collector returned, and holds the returned document.
C8_WaitFailureAllOrNothing ==
    /\ exc # "none" =>
          /\ pc \in {"raised", "outside"}
          /\ merged_html = <<>>
          /\ file = <<>>
    /\ file # <<>> =>
          /\ exc = "none"
          /\ pc \in {"returned", "outside"}
          /\ file = merged_html

C8_Witness ==
    /\ pc = "outside"
    /\ exc = "wait"
    /\ round >= 2
    /\ (seen # <<>> \/ all_offers # <<>>)
    /\ file = <<>>

\* C9: the browser session is closed whenever the with-block has been left,
\* by a normal return of scrape or by its exception.
C9_ScopedRelease ==
    /\ pc = "outside" => ~driver_open
    /\ pc # "outside" => driver_open

C9_Witness ==
    /\ pc = "outside"
    /\ exc # "none"
    /\ ~driver_open

\* C10: the stagnation counter is the number of consecutive no-progress rounds
\* just completed (0 after a progress round); the loop stops by stagnation in
\* a round exactly when that number has reached max_stale_rounds, so
\* no-progress rounds separated by a progress round do not add up.
C10_StagnationCounter ==
    (job_site = JUSTJOINIT /\ hist # <<>>) =>
        /\ stale_rounds = TrailingStale
        /\ stop = "stale" <=> (Completed >= 1 /\ TrailingStale >= max_stale_rounds)

C10_Witness ==
    /\ Finished /\ job_site = JUSTJOINIT
    /\ stop = "cap"
    /\ max_stale_rounds >= 2
    /\ Cardinality(NoProgressRounds) >= max_stale_rounds
    /\ \E j \in 1..Completed : ProgressIn(j) /\ (j - 1) \in NoProgressRounds

\* the next control as the last completed collection of a page found it
LastNext == nexts[Len(nexts)]

\* C11 as stated: after a page's items are appended the loop stops without a
\* click and without raising exactly when the next control is absent or not
\* displayed; a control found and displayed is clicked and the next round
\* follows.
C11_StopRuleAsStated ==
    (job_site = PRACUJPLIT /\ nexts # <<>>) =>
        /\ stop = "nonext" <=> LastNext \in {"absent", "hidden"}
        /\ LastNext \notin {"absent", "hidden"} =>
              /\ exc # "click"
              /\ clicks = Len(nexts)
              /\ pc = "loop" => LoopContinues(round, max_rounds)

\* C11, amended: after a page's items are appended the loop stops without a
\* click and without raising exactly when the next control is absent or not
\* displayed.  A control found and displayed is waited for: once clickable it
\* is clicked, and the next round follows unless max_rounds rounds are done
\* (the loop then ends by the cap, after the click); if it never becomes
\* clickable the wait's exception propagates and nothing is returned.  Every
\* click comes after the items of the page it leaves were collected.
C11_StopRule ==
    (job_site = PRACUJPLIT /\ nexts # <<>>) =>
        /\ Len(nexts) = Len(pages)
        /\ \A i \in 1..(Len(nexts) - 1) : nexts[i] = "clickable"
        /\ clicks <= Len(pages)
        /\ stop = "nonext" <=> LastNext \in {"absent", "hidden"}
        /\ stop = "nonext" => (clicks = Len(nexts) - 1 /\ exc = "none")
        /\ LastNext = "disabled" =>
              /\ exc = "click"
              /\ clicks = Len(nexts) - 1
              /\ pc \in {"raised", "outside"}
              /\ merged_html = <<>>
        /\ LastNext = "clickable" =>
              /\ clicks = Len(nexts)
              /\ exc \in {"none", "wait"}
              /\ stop \in {"none", "cap"}
              /\ (pc = "loop" /\ round < max_rounds) => ENABLED PageRound
              /\ Len(nexts) >= max_rounds =>
                    (exc = "none" /\ round = max_rounds
                        /\ (pc = "loop" \/ stop = "cap"))

C11_Witness ==
    /\ Finished /\ job_site = PRACUJPLIT
    /\ nexts = <<"clickable", "hidden">>
    /\ stop = "nonext"
    /\ clicks = 1
    /\ Len(all_offers) >= 3
    /\ max_rounds > 2

\* a is an initial segment of b
IsPrefix(a, b) == Len(a) <= Len(b) /\ SubSeq(b, 1, Len(a)) = a

\* round j (1..Completed) added a key
CountGrewIn(j) == Len(hist[j + 1]) > Len(hist[j])

\* number of consecutive rounds without a new key ending with the last one
TrailingNoGrowth ==
    CHOOSE n \in 0..Completed :
        /\ \A j \in (Completed - n + 1)..Completed : ~CountGrewIn(j)
        /\ (n < Completed => CountGrewIn(Completed - n))

\* C12: the keyed collector's set only grows (every earlier entry stays, with
\* its markup), so a round in which the maximum key rose also added a key: a
\* round registers progress exactly when the count rose, and the stagnation
\* counter counts the rounds without a new key.
C12_MaxKeyNeverDecides ==
    (job_site = JUSTJOINIT /\ hist # <<>>) =>
        /\ seen = hist[Len(hist)]
        /\ last_count <= Len(seen)
        /\ last_max_idx <= MaxIdx(seen)
        /\ \A j \in 1..Completed :
              /\ IsPrefix(hist[j], hist[j + 1])
              /\ MaxIdx(hist[j + 1]) > MaxIdx(hist[j]) => CountGrewIn(j)
              /\ ProgressIn(j) <=> CountGrewIn(j)
        /\ stale_rounds = TrailingNoGrowth

C12_Witness ==
    /\ Finished /\ job_site = JUSTJOINIT
    /\ \E j \in 1..Completed :
          MaxIdx(hist[j + 1]) > MaxIdx(hist[j]) /\ CountGrewIn(j)
    /\ \E j \in 1..Completed :
          MaxIdx(hist[j + 1]) = MaxIdx(hist[j]) /\ CountGrewIn(j)
    /\ \E j \in 1..Completed : ~CountGrewIn(j)

====
